---- MODULE Spec2Model ----
(***************************************************************************)
(* Model of publisher.py of the Stratos Python cartridge agent: the        *)
(* lifecycle gate functions (publish_instance_*_event), the registry       *)
(* get_publisher, and EventPublisher with its delivery thread              *)
(* (__publish_event).                                                      *)
(*                                                                         *)
(* Caller threads execute the gate functions one source statement per      *)
(* step; every delivery thread started by EventPublisher.publish is a      *)
(* record of `tasks` that steps on its own.  The wall clock is `now`       *)
(* (whole seconds, as int(time.time())).                                   *)
(***************************************************************************)
EXTENDS Integers, Sequences, FiniteSets, TLC

(* ------------------------------ bounds -------------------------------- *)
\* number of caller threads that may run gate functions
NumThreads == 2
\* total number of gate-function calls in one behaviour
MaxCalls == 2
\* number of configured broker endpoints, len(Config.mb_urls)
NumBrokers == 2
\* largest configured Config.mb_publisher_timeout
MaxTimeout == 1
\* the clock advances in unit steps up to this time; beyond it the clock
\* advances by the sleeps of the delivery threads only
MaxTick == 1
\* latest time at which a broker that is down at first comes up
MaxRecover == 2
\* where the delivery threads of several calls run side by side, the clock is
\* followed up to this time
Horizon == 4

(* ------------------------- program constants -------------------------- *)
\* the factor at the deadline comparison, publisher.py line 247
TimeoutFactor == 1000
\* the retry table handed to IncrementalCeilingListIterator, line 244
RetryIntervals == <<2, 2, 5, 5, 10, 10, 20, 20, 30, 30, 40, 40, 50, 50, 60>>

Threads == 1 .. NumThreads
\* the lifecycle code's own thread
MainThread == CHOOSE t \in Threads : \A u \in Threads : t <= u
Brokers == 1 .. NumBrokers
Timeouts == 0 .. MaxTimeout

\* the four gated lifecycle kinds and the two ungated bootstrap requests
Kinds == {"started", "activated", "maintenance", "ready_to_shutdown"}
Requests == {"topology", "tenant"}
Ops == Kinds \cup Requests

\* constants.<CATEGORY>_TOPIC + constants.<EVENT>: the topic a gate function
\* asks get_publisher for (a pair standing for the concatenated string)
Topic(op) ==
    IF op \in Kinds THEN <<"INSTANCE_STATUS_TOPIC", op>>
                    ELSE <<"INITIALIZER_TOPIC", op>>
Topics == {Topic(op) : op \in Ops}

\* a broker accepts from some time on (early, or only when the longest retry
\* budget has run out), never accepts, or accepts or refuses every attempt as
\* it likes
Flaky == [mode |-> "flaky", from |-> 0]
Down == [mode |-> "down", from |-> 0]
UpFrom(time) == [mode |-> "up", from |-> time]
\* the largest retry budget the code grants, in seconds of the clock
LongestBudget == MaxTimeout * TimeoutFactor
BrokerModes ==
    {Flaky, Down} \cup {UpFrom(time) : time \in (0 .. MaxRecover) \cup {LongestBudget}}

\* how a returned call ended
Outcomes == {"published", "noop", "ports_timeout", "stats_error"}

VARIABLES
    now,                  \* int(time.time())
    mb_publisher_timeout, \* Config.mb_publisher_timeout
    broker,               \* per endpoint of Config.mb_urls: how the broker behaves
    flags,                \* Config.started / activated / maintenance / ready_to_shutdown
    objs,                 \* every EventPublisher constructed so far (the heap)
    publishers,           \* the module-level dict: topic -> index into objs, 0 = absent
    tasks,                \* the delivery threads started by EventPublisher.publish
    thr,                  \* the caller threads
    stats,                \* number of HealthStatisticsPublisherManager threads started
    calls,                \* number of gate calls begun
    seen                  \* per gate function: the outcomes of its returned calls

vars == <<now, mb_publisher_timeout, broker, flags, objs,
          publishers, tasks, thr, stats, calls, seen>>

envVars == <<mb_publisher_timeout, broker>>

Min(a, b) == IF a < b THEN a ELSE b

(* ------------------- IncrementalCeilingListIterator ------------------- *)
\* a fresh iterator: the cursor is at the first element
NewRetryIterator == 0

\* get_next_retry_interval: the duration at the cursor ...
RetryIntervalAt(cursor) == RetryIntervals[Min(cursor, Len(RetryIntervals) - 1) + 1]

\* ... and the cursor advanced by one, clamped at the final index
RetryCursorAfter(cursor) == Min(cursor + 1, Len(RetryIntervals) - 1)

(* --------------------------- EventPublisher --------------------------- *)
\* EventPublisher.__init__: the topic and the start time
NewEventPublisher(topic) == [topic |-> topic, start_time |-> now]

\* the loop condition of __publish_event, line 247
WithinDeadline(pub) ==
    now - objs[pub].start_time < mb_publisher_timeout * TimeoutFactor

\* a bug: the iterator belongs to the publisher, so a new thread goes on at
\* the cursor of the thread started before it on the same publisher
NewTaskSharedIterator(op, pub) ==
    LET before == {i \in DOMAIN tasks : tasks[i].pub = pub}
        last == CHOOSE i \in before : \A j \in before : j <= i
    IN  [kind |-> op, pub |-> pub, pc |-> "while",
         cursor |-> IF before = {} THEN NewRetryIterator ELSE tasks[last].cursor,
         retry_interval |-> 0, mb |-> 0, wake |-> 0,
         sweeps |-> 0, attempts |-> 0, accepted |-> 0, sleeps |-> 0, warned |-> 0]

\* the thread created by EventPublisher.publish, with the locals of
\* __publish_event before its loop
NewTask(op, pub) ==
    [kind |-> op, pub |-> pub, pc |-> "while",
     cursor |-> NewRetryIterator, retry_interval |-> 0, mb |-> 0, wake |-> 0,
     sweeps |-> 0, attempts |-> 0, accepted |-> 0, sleeps |-> 0, warned |-> 0]

IdleThread == [pc |-> "idle", op |-> "none", publisher |-> 0,
               spawned |-> FALSE, steps |-> 0]

TypeOK ==
    /\ now \in Nat
    /\ mb_publisher_timeout \in Timeouts
    /\ broker \in [Brokers -> BrokerModes]
    /\ flags \in [Kinds -> BOOLEAN]
    /\ publishers \in [Topics -> 0 .. Len(objs)]
    /\ stats \in Nat
    /\ calls \in 0 .. MaxCalls

InitState ==
    /\ now = 0
    /\ flags = [k \in Kinds |-> FALSE]
    /\ objs = <<>>
    /\ publishers = [t \in Topics |-> 0]
    /\ tasks = <<>>
    /\ thr = [t \in Threads |-> IdleThread]
    /\ stats = 0
    /\ calls = 0
    /\ seen = [op \in Ops |-> {}]

Init ==
    /\ InitState
    /\ mb_publisher_timeout \in Timeouts
    /\ broker = [b \in Brokers |-> Flaky]

(* --------------------------- caller threads --------------------------- *)
\* the thread's next statement becomes `pc`
Goto(t, pc) == [thr EXCEPT ![t].pc = pc, ![t].steps = @ + 1]

\* the call returns (or raises) to the lifecycle code
Return(t, outcome) ==
    /\ thr' = [thr EXCEPT ![t] = IdleThread]
    /\ seen' = [seen EXCEPT ![thr[t].op] = @ \cup {outcome}]

\* the first statement of a gate function: the request functions have no flag
FirstPc(op) == IF op \in Kinds THEN "check_flag" ELSE "get_test"

\* a caller enters publish_<op>_event()
Begin(t, op) ==
    /\ thr[t].pc = "idle"
    /\ calls < MaxCalls
    /\ calls' = calls + 1
    /\ thr' = [thr EXCEPT ![t] = [IdleThread EXCEPT !.pc = FirstPc(op), !.op = op]]
    /\ UNCHANGED <<now, envVars, flags, objs, publishers, tasks, stats, seen>>

\* `if not Config.<flag>:` (lines 36, 67, 130, 160) and the else branch that
\* only logs "already ..."
CheckFlag(t) ==
    /\ thr[t].pc = "check_flag"
    /\ IF flags[thr[t].op]
         THEN Return(t, "noop")
         ELSE /\ thr' = Goto(t, IF thr[t].op = "activated" THEN "wait_ports" ELSE "get_test")
              /\ UNCHANGED seen
    /\ UNCHANGED <<now, envVars, flags, objs, publishers, tasks, stats, calls>>

\* wait_until_ports_active, which reports whether the ports came up within
\* the port check timeout, and `if ports_active:` (lines 71-76, 121-124)
WaitPorts(t) ==
    /\ thr[t].pc = "wait_ports"
    /\ \E ports_active \in BOOLEAN :
          IF ports_active
            THEN thr' = Goto(t, "get_test") /\ UNCHANGED seen
            ELSE Return(t, "ports_timeout")
    /\ UNCHANGED <<now, envVars, flags, objs, publishers, tasks, stats, calls>>

\* a bug: the membership test is lost and every call constructs a publisher
NeverRegistered(topic) == FALSE

\* `topic not in publishers` (line 204)
Registered(topic) == publishers[topic] # 0

GetPublisherTest(t) ==
    /\ thr[t].pc = "get_test"
    /\ thr' = Goto(t, IF Registered(Topic(thr[t].op)) THEN "get_return" ELSE "get_new")
    /\ UNCHANGED <<now, envVars, flags, objs, publishers, tasks, stats, calls, seen>>

\* `publishers[topic] = EventPublisher(topic)` (line 205)
GetPublisherNew(t) ==
    /\ thr[t].pc = "get_new"
    /\ objs' = Append(objs, NewEventPublisher(Topic(thr[t].op)))
    /\ publishers' = [publishers EXCEPT ![Topic(thr[t].op)] = Len(objs) + 1]
    /\ thr' = Goto(t, "get_return")
    /\ UNCHANGED <<now, envVars, flags, tasks, stats, calls, seen>>

\* `return publishers[topic]` (line 207), assigned to the caller's `publisher`
GetPublisherReturn(t) ==
    /\ thr[t].pc = "get_return"
    /\ thr' = [Goto(t, "publish") EXCEPT ![t].publisher = publishers[Topic(thr[t].op)]]
    /\ UNCHANGED <<now, envVars, flags, objs, publishers, tasks, stats, calls, seen>>

\* a bug: publish joins the thread it started, and the caller waits for it
PcJoin(op) == "join"

\* the statement after publisher.publish(event) in each gate function
PcAfterPublish(op) ==
    IF op = "activated" THEN "stats_config"
    ELSE IF op \in Kinds THEN "set_flag"
    ELSE "return"

\* publisher.publish(event): EventPublisher.publish starts the thread and
\* returns (lines 220-222)
Publish(t) ==
    /\ thr[t].pc = "publish"
    /\ tasks' = Append(tasks, NewTask(thr[t].op, thr[t].publisher))
    /\ thr' = [Goto(t, PcAfterPublish(thr[t].op)) EXCEPT ![t].spawned = TRUE]
    /\ UNCHANGED <<now, envVars, flags, objs, publishers, stats, calls, seen>>

\* the request functions return after publish (lines 193, 200)
ReturnRequest(t) ==
    /\ thr[t].pc = "return"
    /\ Return(t, "published")
    /\ UNCHANGED <<now, envVars, flags, objs, publishers, tasks, stats, calls>>

\* Config.read_property(CEP_PUBLISHER_ENABLED) and the interval (lines 101-112, 117)
StatsConfig(t) ==
    /\ thr[t].pc = "stats_config"
    /\ \E enabled \in BOOLEAN :
          thr' = Goto(t, IF enabled THEN "stats_start" ELSE "set_flag")
    /\ UNCHANGED <<now, envVars, flags, objs, publishers, tasks, stats, calls, seen>>

\* HealthStatisticsPublisherManager(interval) and .start() (lines 113-115):
\* the collaborator either starts or raises, and an exception leaves
\* publish_instance_activated_event before line 119
StatsStart(t) ==
    /\ thr[t].pc = "stats_start"
    /\ \E raised \in BOOLEAN :
          IF raised
            THEN Return(t, "stats_error") /\ UNCHANGED stats
            ELSE thr' = Goto(t, "set_flag") /\ stats' = stats + 1 /\ UNCHANGED seen
    /\ UNCHANGED <<now, envVars, flags, objs, publishers, tasks, calls>>

\* a flag assignment that writes the whole flag record
SetFlagClearsOthers(t) ==
    /\ thr[t].pc = "set_flag"
    /\ flags' = [k \in Kinds |-> k = thr[t].op]
    /\ Return(t, "published")
    /\ UNCHANGED <<now, envVars, objs, publishers, tasks, stats, calls>>

\* `Config.<flag> = True` (lines 60, 119, 153, 183) and the return
SetFlag(t) ==
    /\ thr[t].pc = "set_flag"
    /\ flags' = [flags EXCEPT ![thr[t].op] = TRUE]
    /\ Return(t, "published")
    /\ UNCHANGED <<now, envVars, objs, publishers, tasks, stats, calls>>

\* one statement of the gate function thread t is in
CallerStep(t) ==
    \/ CheckFlag(t)
    \/ WaitPorts(t)
    \/ GetPublisherTest(t)
    \/ GetPublisherNew(t)
    \/ GetPublisherReturn(t)
    \/ Publish(t)
    \/ ReturnRequest(t)
    \/ StatsConfig(t)
    \/ StatsStart(t)
    \/ SetFlag(t)

(* -------------------------- delivery threads -------------------------- *)
\* the thread has returned from __publish_event
Terminated(task) == task.pc \in {"published", "dropped"}

SetTask(i, task) == tasks' = [tasks EXCEPT ![i] = task]

\* what publish.single can do at an endpoint now: return (TRUE) or raise (FALSE)
AttemptResults(b) ==
    IF b.mode = "flaky" THEN BOOLEAN
    ELSE IF b.mode = "down" THEN {FALSE}
    ELSE {now >= b.from}

\* a bug: the iterator is constructed inside the loop, so every sweep reads
\* the first interval
WhileStepFreshIterator(task) ==
    IF WithinDeadline(task.pub)
      THEN [task EXCEPT !.pc = "for", !.mb = 1, !.sweeps = @ + 1,
                        !.retry_interval = RetryIntervalAt(NewRetryIterator),
                        !.cursor = RetryCursorAfter(NewRetryIterator)]
      ELSE [task EXCEPT !.pc = "dropped", !.warned = @ + 1]

\* a bug: a new sweep goes on at the endpoint the last one stopped at
WhileStepKeepsEndpoint(task) ==
    IF WithinDeadline(task.pub)
      THEN [task EXCEPT !.pc = "for", !.mb = IF @ = 0 THEN 1 ELSE @, !.sweeps = @ + 1,
                        !.retry_interval = RetryIntervalAt(task.cursor),
                        !.cursor = RetryCursorAfter(task.cursor)]
      ELSE [task EXCEPT !.pc = "dropped", !.warned = @ + 1]

\* `while int(time.time()) - self.__start_time < ...:` with the first statement
\* of its body, `retry_interval = retry_iterator.get_next_retry_interval()`
\* (lines 247-248), and after the loop the drop warning and `return False`
\* (lines 266-268)
WhileStep(task) ==
    IF WithinDeadline(task.pub)
      THEN [task EXCEPT !.pc = "for", !.mb = 1, !.sweeps = @ + 1,
                        !.retry_interval = RetryIntervalAt(task.cursor),
                        !.cursor = RetryCursorAfter(task.cursor)]
      ELSE [task EXCEPT !.pc = "dropped", !.warned = @ + 1]

TaskWhile(i) ==
    /\ tasks[i].pc = "while"
    /\ SetTask(i, WhileStep(tasks[i]))
    /\ UNCHANGED <<now, envVars, flags, objs, publishers, thr, stats, calls, seen>>

\* a bug: the first refusal ends the sweep and the thread sleeps at once
RefusedAbortsSweep(task) ==
    [task EXCEPT !.attempts = @ + 1, !.pc = "sleep", !.sleeps = @ + 1,
                 !.wake = now + task.retry_interval]

\* publish.single raised: the except clause logs and the for loop goes on
\* (lines 257-258); after the last endpoint the thread calls time.sleep (line 264)
Refused(task) ==
    IF task.mb < NumBrokers
      THEN [task EXCEPT !.attempts = @ + 1, !.mb = @ + 1]
      ELSE [task EXCEPT !.attempts = @ + 1, !.pc = "sleep", !.sleeps = @ + 1,
                        !.wake = now + task.retry_interval]

\* a bug: the accepting attempt does not return and the for loop goes on
AcceptedGoesOn(task) == [Refused(task) EXCEPT !.accepted = @ + 1]

\* publish.single returned: `return True` (lines 254-256)
Accepted(task) ==
    [task EXCEPT !.pc = "published", !.attempts = @ + 1, !.accepted = @ + 1]

\* a bug: the deliveries are queued, a thread attempts only when the threads
\* started before it have ended
TaskAttemptInOrder(i) ==
    /\ tasks[i].pc = "for"
    /\ \A j \in 1 .. i - 1 : Terminated(tasks[j])
    /\ \E ok \in AttemptResults(broker[tasks[i].mb]) :
          SetTask(i, IF ok THEN Accepted(tasks[i]) ELSE Refused(tasks[i]))
    /\ UNCHANGED <<now, envVars, flags, objs, publishers, thr, stats, calls, seen>>

\* one iteration of `for mb_url in Config.mb_urls:` (lines 250-258)
TaskAttempt(i) ==
    /\ tasks[i].pc = "for"
    /\ \E ok \in AttemptResults(broker[tasks[i].mb]) :
          SetTask(i, IF ok THEN Accepted(tasks[i]) ELSE Refused(tasks[i]))
    /\ UNCHANGED <<now, envVars, flags, objs, publishers, thr, stats, calls, seen>>

\* a bug: the sleep outlasts its interval by a clock reading that never comes
SleepOverLate(task) == now > task.wake

\* time.sleep(retry_interval) returns once the interval has passed (line 264)
SleepOver(task) == now >= task.wake

\* ... and the loop tests again
TaskWake(i) ==
    /\ tasks[i].pc = "sleep"
    /\ SleepOver(tasks[i])
    /\ SetTask(i, [tasks[i] EXCEPT !.pc = "while"])
    /\ UNCHANGED <<now, envVars, flags, objs, publishers, thr, stats, calls, seen>>

TaskStep(i) == TaskWhile(i) \/ TaskAttempt(i) \/ TaskWake(i)

(* ---------------------------- environment ----------------------------- *)
\* one second passes
Tick ==
    /\ now < MaxTick
    /\ now' = now + 1
    /\ UNCHANGED <<envVars, flags, objs, publishers, tasks, thr, stats, calls, seen>>

\* the sleeping threads sleep on: time passes up to the earliest wake-up
Sleeping == {i \in DOMAIN tasks : tasks[i].pc = "sleep" /\ tasks[i].wake > now}

SleepElapse ==
    /\ Sleeping # {}
    /\ \E i \in Sleeping :
          /\ \A j \in Sleeping : tasks[i].wake <= tasks[j].wake
          /\ now' = tasks[i].wake
    /\ UNCHANGED <<envVars, flags, objs, publishers, tasks, thr, stats, calls, seen>>

(* --------------------------- specifications --------------------------- *)
\* a call begins when no other call is in progress
NoCallInProgress == \A t \in Threads : thr[t].pc = "idle"

\* the statements of the two request functions (lines 189-200)
RequestStep(t) ==
    \/ GetPublisherTest(t)
    \/ GetPublisherNew(t)
    \/ GetPublisherReturn(t)
    \/ Publish(t)
    \/ ReturnRequest(t)

\* Spec: the lifecycle code calls the gate functions one after the other,
\* within one second; the delivery threads run beside it.
SeqBegin == \E op \in Ops : NoCallInProgress /\ Begin(MainThread, op)

Next ==
    \/ SeqBegin
    \/ \E t \in Threads : CallerStep(t)
    \/ \E i \in DOMAIN tasks : TaskStep(i)

Spec == Init /\ [][Next]_vars

\* SpecConc: several threads call the gate functions at the same time.
ConcBegin == \E t \in Threads, op \in Ops : Begin(t, op)

NextConc ==
    \/ ConcBegin
    \/ \E t \in Threads : CallerStep(t)
    \/ \E i \in DOMAIN tasks : TaskStep(i)

SpecConc == Init /\ [][NextConc]_vars

\* SpecTask: the request functions are called one after the other, each once
\* the delivery of the request before it has ended, while time passes; every
\* broker is down for good or comes up at some time.
InitTask ==
    /\ InitState
    /\ mb_publisher_timeout \in Timeouts
    /\ broker \in [Brokers -> {Down} \cup {UpFrom(time) : time \in 0 .. MaxRecover}]

NoDeliveryInProgress == \A i \in DOMAIN tasks : Terminated(tasks[i])

RequestBegin ==
    \E op \in Requests :
        NoCallInProgress /\ NoDeliveryInProgress /\ Begin(MainThread, op)

NextTask ==
    \/ RequestBegin
    \/ \E t \in Threads : RequestStep(t)
    \/ \E i \in DOMAIN tasks : TaskStep(i)
    \/ Tick
    \/ SleepElapse

SpecTask == InitTask /\ [][NextTask]_vars

\* SpecLate: as SpecTask, with brokers that are up, down for good, or down
\* until the longest retry budget has run out.
InitLate ==
    /\ InitState
    /\ mb_publisher_timeout \in Timeouts
    /\ broker \in [Brokers -> {Down, UpFrom(0), UpFrom(LongestBudget)}]

SpecLate == InitLate /\ [][NextTask]_vars

\* SpecPair: the request functions are called one after the other without
\* waiting for the delivery threads of the calls before, so the threads of
\* several calls are in flight together.  The clock moves by the sleeps of the
\* threads and is followed up to Horizon; the timeout is the largest one, and
\* a broker is down for good or comes up at the latest time.
InitPair ==
    /\ InitState
    /\ mb_publisher_timeout = MaxTimeout
    /\ broker \in [Brokers -> {Down, UpFrom(MaxRecover)}]

SleepElapseWithin == SleepElapse /\ now' <= Horizon

PairBegin == \E op \in Requests : NoCallInProgress /\ Begin(MainThread, op)

NextPair ==
    \/ PairBegin
    \/ \E t \in Threads : RequestStep(t)
    \/ \E i \in DOMAIN tasks : TaskStep(i)
    \/ SleepElapseWithin

SpecPair == InitPair /\ [][NextPair]_vars

\* SpecTaskFair: SpecTask where every started thread is scheduled again and
\* again and the time a thread sleeps for does pass.
TaskStepAt(i) == i \in DOMAIN tasks /\ TaskStep(i)

SpecTaskFair ==
    /\ SpecTask
    /\ \A i \in 1 .. MaxCalls : WF_vars(TaskStepAt(i))
    /\ WF_vars(SleepElapse)

(* ------------------------------ claims -------------------------------- *)
\* the delivery threads started for the events of one gate function
TasksOf(op) == {i \in DOMAIN tasks : tasks[i].kind = op}
NumTasks(op) == Cardinality(TasksOf(op))

\* the outcomes of calls that went past the flag test and the port check
AfterSpawn == {"published", "stats_error"}

\* C1: under sequential calls every lifecycle kind has at most one delivery
\* thread, and exactly one as soon as a call of it has returned after the flag
\* test (and, for activation, after a successful port check); a call that
\* finds the flag set is a no-op.
C1_OneTaskPerKindSequential ==
    \A k \in Kinds :
        /\ NumTasks(k) <= 1
        /\ seen[k] \cap (AfterSpawn \cup {"noop"}) # {} => NumTasks(k) = 1

\* C1, the part the code keeps: the three kinds without a statistics step
C1_OneTaskPerPlainKind ==
    \A k \in Kinds \ {"activated"} :
        /\ NumTasks(k) <= 1
        /\ seen[k] # {} => NumTasks(k) = 1 /\ flags[k]

\* C2: under every interleaving of concurrent callers at most one delivery
\* thread is ever started per lifecycle kind.
C2_OneTaskPerKindConcurrent == \A k \in Kinds : NumTasks(k) <= 1

\* C3: under every interleaving of concurrent get_publisher(T) calls one
\* EventPublisher is constructed for T and every caller receives that one.
C3_OnePublisherPerTopic ==
    /\ \A a, b \in DOMAIN objs : objs[a].topic = objs[b].topic => a = b
    /\ \A t \in Threads :
          thr[t].publisher # 0 => thr[t].publisher = publishers[Topic(thr[t].op)]
    /\ \A i, j \in DOMAIN tasks :
          tasks[i].kind = tasks[j].kind => tasks[i].pub = tasks[j].pub

\* C4: once an endpoint has accepted the payload the delivery thread has
\* ended: it is accepted once, nothing of the thread changes afterwards (no
\* attempt, no sleep, no warning), and the accepting attempt was its last.
\* With endpoints [A refuses, B accepts] a thread that enters the loop
\* attempts A and B once each and ends published without a sleep.
AcceptedIsFinal(task) ==
    /\ task.accepted <= 1
    /\ task.accepted = 1 <=> task.pc = "published"
    /\ task.pc = "published" =>
          /\ task.warned = 0
          /\ task.sleeps = task.sweeps - 1
          /\ task.attempts = (task.sweeps - 1) * NumBrokers + task.mb

FailsThenSucceeds == broker[1] = Down /\ broker[2] = UpFrom(0)

C4_FirstAcceptEndsTask ==
    /\ [](\A i \in DOMAIN tasks :
            /\ AcceptedIsFinal(tasks[i])
            /\ FailsThenSucceeds /\ tasks[i].sweeps >= 1 /\ tasks[i].pc # "for" =>
                  /\ tasks[i].pc = "published"
                  /\ tasks[i].attempts = 2
                  /\ tasks[i].sleeps = 0)
    /\ [][\A i \in DOMAIN tasks :
            tasks[i].pc = "published" => tasks'[i] = tasks[i]]_vars

C4_Witness ==
    \E i \in DOMAIN tasks :
        /\ FailsThenSucceeds
        /\ tasks[i].pc = "published"
        /\ tasks[i].attempts = 2
        /\ tasks[i].sleeps = 0

\* C4 also covers an acceptance in a later sweep
C4_LaterSweepReached ==
    \E i \in DOMAIN tasks : tasks[i].pc = "published" /\ tasks[i].sweeps = 2

\* C5: every delivery thread ends, published or dropped, and until then it
\* has started no more sweeps than shortest sleeps fit into the deadline.
SweepsBounded(task) ==
    task.sweeps >= 1 =>
        RetryIntervals[1] * (task.sweeps - 1) < mb_publisher_timeout * TimeoutFactor

C5_TaskTerminates ==
    /\ \A i \in 1 .. MaxCalls :
          (i \in DOMAIN tasks) ~> (i \in DOMAIN tasks /\ Terminated(tasks[i]))
    /\ [](\A i \in DOMAIN tasks :
            /\ tasks[i].pc \in {"while", "for", "sleep", "published", "dropped"}
            /\ SweepsBounded(tasks[i]))

\* a thread whose attempts all failed has retried and then given up
C5_Witness ==
    \E i \in DOMAIN tasks :
        /\ tasks[i].pc = "dropped"
        /\ tasks[i].sweeps >= 2
        /\ tasks[i].attempts = tasks[i].sweeps * NumBrokers

\* C6: with every endpoint refusing and a publisher timeout of 1 a delivery
\* thread is dropped after its first sweep and sleep; and a thread logs the
\* drop warning once if it is dropped and never otherwise.
AllDown == \A b \in Brokers : broker[b] = Down

WarnedIffDropped(task) ==
    /\ task.warned = (IF task.pc = "dropped" THEN 1 ELSE 0)
    /\ task.pc = "dropped" => task.accepted = 0

C6_DropAfterFirstSweep ==
    \A i \in DOMAIN tasks :
        /\ WarnedIffDropped(tasks[i])
        /\ AllDown /\ mb_publisher_timeout = 1 => tasks[i].sweeps <= 1

\* C6, the part the code keeps: the warning is logged once, by dropped threads
C6_WarnedOnceIffDropped == \A i \in DOMAIN tasks : WarnedIffDropped(tasks[i])

\* C7: an activation call whose port check fails leaves no trace (flag false,
\* no delivery thread, no registry entry, no statistics thread); a call whose
\* port check succeeds starts the one delivery thread of the kind and sets
\* the flag, and later calls are no-ops.
PortsTimeoutLeavesNoTrace ==
    seen["activated"] \subseteq {"ports_timeout"} /\ NoCallInProgress =>
        /\ ~flags["activated"]
        /\ NumTasks("activated") = 0
        /\ ~Registered(Topic("activated"))
        /\ stats = 0

C7_ActivationGate ==
    /\ PortsTimeoutLeavesNoTrace
    /\ NumTasks("activated") <= 1
    /\ NumTasks("activated") = 1 /\ NoCallInProgress => flags["activated"]

\* C7, the part the code keeps
C7_PortsTimeoutLeavesNoTrace == PortsTimeoutLeavesNoTrace /\ stats <= NumTasks("activated")

\* C8: whenever a call of a gate function has returned, normally or not,
\* after handing its event to the publisher, the flag of its kind is true.
C8_FlagSetAfterHandOff ==
    \A k \in Kinds : seen[k] \cap AfterSpawn # {} => flags[k]

\* C9: a caller inside publish(event) or inside a gate function other than
\* activation can always take its next step, whatever the brokers and the
\* delivery threads do, and returns within five steps; no step of a delivery
\* thread changes a caller, a flag or the outcome of a call.
C9_CallerNeverBlocked ==
    /\ [](\A t \in Threads :
            thr[t].pc # "idle" /\ (thr[t].op # "activated" \/ thr[t].pc = "publish") =>
                /\ ENABLED CallerStep(t)
                /\ thr[t].steps <= Cardinality({"get_test", "get_new", "get_return",
                                                "publish", "set_flag"}))
    /\ [][(\E i \in DOMAIN tasks : TaskStep(i)) => UNCHANGED <<thr, flags, seen>>]_vars

\* the caller is back while the delivery thread sleeps after a failed sweep
C9_Witness ==
    \E k \in Kinds \ {"activated"} :
        /\ NoCallInProgress
        /\ "published" \in seen[k]
        /\ flags[k]
        /\ \E i \in TasksOf(k) :
              tasks[i].pc = "sleep" /\ tasks[i].attempts = NumBrokers

\* C10: a registered topic keeps its EventPublisher: the registry entry, the
\* topic and the start time of a constructed publisher never change, an entry
\* changes only when get_publisher stores a new publisher for that very topic,
\* and callers and delivery threads hold the registered instance.
C10_StoredPublisherUnchanged ==
    /\ [][\A topic \in Topics :
            /\ publishers[topic] # 0 => publishers'[topic] = publishers[topic]
            /\ publishers'[topic] # publishers[topic] =>
                  \E t \in Threads : thr[t].pc = "get_new" /\ Topic(thr[t].op) = topic]_vars
    /\ [][\A p \in DOMAIN objs : p \in DOMAIN objs' /\ objs'[p] = objs[p]]_vars
    /\ [](/\ \A t \in Threads :
                thr[t].publisher # 0 => thr[t].publisher = publishers[Topic(thr[t].op)]
          /\ \A i \in DOMAIN tasks : tasks[i].pub = publishers[Topic(tasks[i].kind)])

\* a second event is published on a publisher created some time ago
C10_Witness ==
    \E i, j \in DOMAIN tasks :
        /\ i < j
        /\ tasks[i].pub = tasks[j].pub
        /\ objs[tasks[j].pub].start_time < now

\* C11: in a delivery thread the wait of the n-th sweep is element min(n, 15)
\* of the retry table: 2 for the first two sweeps, never less than the wait
\* before, 60 from the 15th sweep on; and the thread sleeps until that wait
\* has passed.
WaitOfSweep(n) == RetryIntervals[Min(n, Len(RetryIntervals))]

WaitFollowsTable(task) ==
    task.sweeps >= 1 =>
        /\ task.retry_interval = WaitOfSweep(task.sweeps)
        /\ task.sweeps <= 2 => task.retry_interval = 2
        /\ task.sweeps >= Len(RetryIntervals) => task.retry_interval = 60
        /\ task.sweeps >= 2 => WaitOfSweep(task.sweeps - 1) <= task.retry_interval

C11_WaitsFollowTable ==
    /\ [](\A i \in DOMAIN tasks : WaitFollowsTable(tasks[i]))
    /\ [][\A i \in DOMAIN tasks :
            tasks[i].pc = "for" /\ tasks'[i].pc = "sleep" =>
                tasks'[i].wake = now + WaitOfSweep(tasks[i].sweeps)]_vars
    /\ [][\A i \in DOMAIN tasks :
            tasks[i].pc = "sleep" /\ tasks'[i].pc # "sleep" => now >= tasks[i].wake]_vars

\* a thread sleeps after its 17th failed sweep
C11_Witness ==
    \E i \in DOMAIN tasks :
        /\ tasks[i].pc = "sleep"
        /\ tasks[i].sweeps = Len(RetryIntervals) + 2
        /\ tasks[i].wake = now + 60

\* C12: a sweep starts only while the time since the publisher was created
\* is less than the configured publisher timeout, both in seconds.
C12_SweepStartsWithinTimeout ==
    [][\A i \in DOMAIN tasks :
         tasks'[i].sweeps > tasks[i].sweeps =>
             now - objs[tasks[i].pub].start_time < mb_publisher_timeout]_vars

\* C12, the part the code keeps: a sweep starts within timeout * 1000 seconds
C12_SweepStartsWithinBudget ==
    [][\A i \in DOMAIN tasks :
         tasks'[i].sweeps > tasks[i].sweeps =>
             now - objs[tasks[i].pub].start_time < mb_publisher_timeout * TimeoutFactor]_vars

\* C13: the budget of a topic runs from its first get_publisher: a thread
\* started when the publisher timeout (seconds) has run out since then makes
\* no attempt and no sleep and is dropped with the warning, whatever the
\* brokers would answer.
FirstPublisher(topic) ==
    CHOOSE p \in DOMAIN objs :
        /\ objs[p].topic = topic
        /\ \A q \in DOMAIN objs : objs[q].topic = topic => p <= q

BudgetOver(op, budget) ==
    now - objs[FirstPublisher(Topic(op))].start_time >= budget

LateStepDrops(budget) ==
    \A i \in DOMAIN tasks :
        tasks[i].sweeps = 0 /\ tasks[i].pc = "while" /\ BudgetOver(tasks[i].kind, budget)
        /\ tasks'[i] # tasks[i] =>
            /\ tasks'[i].pc = "dropped"
            /\ tasks'[i].warned = 1
            /\ tasks'[i].attempts = 0
            /\ tasks'[i].sleeps = 0

DroppedUntried ==
    \A i \in DOMAIN tasks :
        tasks[i].pc = "dropped" /\ tasks[i].sweeps = 0 =>
            tasks[i].attempts = 0 /\ tasks[i].sleeps = 0 /\ tasks[i].warned = 1

C13_LatePublishIsDropped ==
    [][LateStepDrops(mb_publisher_timeout)]_vars /\ []DroppedUntried

\* C13, the part the code keeps: the budget runs from the first
\* get_publisher of the topic, and a thread started after timeout * 1000
\* seconds is dropped untried.
C13_LateOnLongBudgetIsDropped ==
    [][LateStepDrops(mb_publisher_timeout * TimeoutFactor)]_vars /\ []DroppedUntried

\* an event published late on an old publisher is dropped untried although
\* the timeout is not zero and every broker accepts by now
C13_Witness ==
    \E i \in DOMAIN tasks :
        /\ mb_publisher_timeout > 0
        /\ \A b \in Brokers : AttemptResults(broker[b]) = {TRUE}
        /\ tasks[i].pc = "dropped"
        /\ tasks[i].sweeps = 0
        /\ \E j \in DOMAIN tasks : j < i /\ tasks[j].pub = tasks[i].pub

\* C14: the attempts of a thread go through the endpoints in list order:
\* every sweep starts at the first endpoint, the thread is at endpoint m of a
\* sweep when the m - 1 endpoints before it were attempted in that sweep, and
\* a step makes one attempt, at the endpoint the thread is at.
InListOrder(task) ==
    task.pc = "for" =>
        /\ task.mb \in Brokers
        /\ task.mb = task.attempts - (task.sweeps - 1) * NumBrokers + 1

C14_AttemptsInListOrder ==
    /\ [](\A i \in DOMAIN tasks : InListOrder(tasks[i]))
    /\ [][\A i \in DOMAIN tasks :
            /\ tasks'[i].sweeps > tasks[i].sweeps => tasks'[i].pc = "for" /\ tasks'[i].mb = 1
            /\ tasks'[i].attempts # tasks[i].attempts =>
                  /\ tasks[i].pc = "for"
                  /\ tasks'[i].attempts = tasks[i].attempts + 1
                  /\ tasks'[i].pc = "for" => tasks'[i].mb = tasks[i].mb + 1
                  /\ \A j \in DOMAIN tasks \ {i} : tasks'[j] = tasks[j]]_vars

\* the second sweep of a thread has reached the last endpoint
C14_Witness ==
    \E i \in DOMAIN tasks :
        tasks[i].pc = "for" /\ tasks[i].sweeps = 2 /\ tasks[i].mb = NumBrokers

\* C15: a refusal ends neither the sweep nor the thread: a sweep without an
\* acceptance attempts every endpoint once, then the thread sleeps one wait
\* and tests the deadline again; two sweeps are always a sleep apart, and a
\* thread is dropped only when the deadline has passed.
SweepsAreWhole(task) ==
    /\ task.pc = "for" => task.sleeps = task.sweeps - 1
    /\ task.pc \in {"while", "sleep", "dropped"} =>
          /\ task.sleeps = task.sweeps
          /\ task.attempts = task.sweeps * NumBrokers
          /\ task.accepted = 0
    /\ task.pc = "while" /\ task.sweeps >= 1 => now >= task.wake
    /\ task.pc = "dropped" => ~WithinDeadline(task.pub)

C15_RefusalsDoNotAbort ==
    \A i \in DOMAIN tasks : SweepsAreWhole(tasks[i])

\* a thread sleeps after its second sweep, every endpoint refused twice
C15_Witness ==
    \E i \in DOMAIN tasks :
        /\ tasks[i].pc = "sleep"
        /\ tasks[i].sweeps = 2
        /\ tasks[i].attempts = 2 * NumBrokers

\* C16: a lifecycle flag that is true stays true, whatever the gate functions
\* and the delivery threads do in whatever order, and a flag changes only in
\* the assignment of the gate function it belongs to.
C16_FlagsWriteOnce ==
    [][\A k \in Kinds :
         /\ flags[k] => flags'[k]
         /\ flags'[k] # flags[k] =>
               \E t \in Threads :
                   /\ thr[t].op = k
                   /\ thr[t].pc = "set_flag"
                   /\ thr'[t] # thr[t]
                   /\ \A u \in Threads \ {t} : thr'[u] = thr[u]
                   /\ tasks' = tasks]_vars

\* a second gate function has set its flag beside the first, and a delivery
\* thread has made an attempt
C16_Witness ==
    /\ \E k1, k2 \in Kinds : k1 # k2 /\ flags[k1] /\ flags[k2]
    /\ \E i \in DOMAIN tasks : tasks[i].attempts > 0

\* C17: the backoff belongs to one delivery thread: every thread starts at
\* the first interval, its wait depends on the number of its own sweeps only,
\* and a step of one thread leaves cursor and wait of every other thread as
\* they are, also for threads in flight together on one publisher.
InFlight(i) == ~Terminated(tasks[i])

OwnBackoff(task) ==
    /\ task.cursor = Min(task.sweeps, Len(RetryIntervals) - 1)
    /\ task.sweeps = 0 => task.retry_interval = 0
    /\ task.sweeps = 1 => task.retry_interval = RetryIntervals[1]
    /\ task.sweeps >= 1 => task.retry_interval = WaitOfSweep(task.sweeps)

C17_BackoffIsPerTask ==
    /\ [](\A i \in DOMAIN tasks : OwnBackoff(tasks[i]))
    /\ [][\A i, j \in DOMAIN tasks :
            i # j /\ tasks'[i] # tasks[i] =>
                /\ tasks'[j].cursor = tasks[j].cursor
                /\ tasks'[j].retry_interval = tasks[j].retry_interval]_vars

\* two threads in flight on one publisher, one in its third sweep and the
\* other, started later, in its first
C17_Witness ==
    \E i, j \in DOMAIN tasks :
        /\ i < j
        /\ tasks[i].pub = tasks[j].pub
        /\ InFlight(i) /\ InFlight(j)
        /\ tasks[i].sweeps = 3 /\ tasks[i].retry_interval = 5
        /\ tasks[j].sweeps = 1 /\ tasks[j].retry_interval = 2

\* C18: the events are not delivered in the order of their publish calls: no
\* delivery thread waits for the thread of an earlier call, it can test its
\* deadline and attempt its endpoint whatever the earlier threads do, so that
\* a later event can be accepted while an earlier one is still refused.
C18_NoDeliveryOrder ==
    \A i \in DOMAIN tasks :
        /\ tasks[i].pc = "while" => ENABLED TaskWhile(i)
        /\ tasks[i].pc = "for" => ENABLED TaskAttempt(i)

\* the event of the later call is accepted by a broker that has come up,
\* while the event of the earlier call, refused by every endpoint when the
\* brokers were down, is not accepted yet
C18_Witness ==
    \E i, j \in DOMAIN tasks :
        /\ j < i
        /\ tasks[i].pc = "published"
        /\ InFlight(j)
        /\ tasks[j].attempts >= NumBrokers
        /\ tasks[j].accepted = 0

\* C19: publish has no queue and no admission control: every publish call
\* starts exactly one delivery thread at once, whatever threads are in flight,
\* and nothing else starts one; the threads of one topic all run on the one
\* publisher of that topic; the two request functions neither test nor set a
\* lifecycle flag.
PublishSpawnsOne ==
    \A t \in Threads :
        thr[t].pc = "publish" /\ thr'[t] # thr[t] =>
            /\ Len(tasks') = Len(tasks) + 1
            /\ SubSeq(tasks', 1, Len(tasks)) = tasks
            /\ tasks'[Len(tasks')].kind = thr[t].op
            /\ tasks'[Len(tasks')].pub = thr[t].publisher
            /\ tasks'[Len(tasks')].pc = "while"

OnlyPublishSpawns ==
    Len(tasks') # Len(tasks) =>
        \E t \in Threads : thr[t].pc = "publish" /\ thr'[t] # thr[t]

RequestsLeaveFlags ==
    \A t \in Threads :
        thr[t].op \in Requests /\ thr'[t] # thr[t] => flags' = flags

RequestsTestNoFlag ==
    \A t \in Threads :
        thr[t].op \in Requests => thr[t].pc \notin {"check_flag", "set_flag"}

OnePublisherPerTopicInUse ==
    \A i, j \in DOMAIN tasks :
        Topic(tasks[i].kind) = Topic(tasks[j].kind) => tasks[i].pub = tasks[j].pub

C19_NoAdmissionControl ==
    /\ [][PublishSpawnsOne /\ OnlyPublishSpawns /\ RequestsLeaveFlags]_vars
    /\ []RequestsTestNoFlag
    /\ []OnePublisherPerTopicInUse

\* C19, the part the code keeps also when the calls come from several
\* threads at once: one new thread per publish call, no flag involved
C19_OneTaskPerPublish ==
    /\ [][PublishSpawnsOne /\ OnlyPublishSpawns /\ RequestsLeaveFlags]_vars
    /\ []RequestsTestNoFlag

\* every call of a request function has started a thread, and the threads
\* are all in flight at once on one publisher
C19_Witness ==
    /\ Len(tasks) = MaxCalls
    /\ \A i \in DOMAIN tasks :
          /\ InFlight(i)
          /\ tasks[i].kind \in Requests
          /\ tasks[i].pub = tasks[1].pub

====
